---- MODULE Spec2Model ----
(***************************************************************************)
(* Model of callcounter.cpp: a per-thread function-call counter driven by  *)
(* the -finstrument-functions hooks.  Each thread owns a thread_local      *)
(* ThreadCallMap; its destructor appends the counts to the output file     *)
(* under file_mutex.  cc_constructor selects and truncates the file.       *)
(***************************************************************************)
EXTENDS Integers, Sequences, FiniteSets, TLC

(* ------------------------------ bounds -------------------------------- *)
NThreads == 3        \* thread 1 is the main thread, the others are workers
NFuncs == 2          \* function identities 0 .. NFuncs-1 ; 0 is the null pointer
MaxCalls == 2        \* hook invocations the threads make at most, in total
BufSize == 2         \* capacity of a stdio buffer, in tokens (a record is 3)
StackLimit == 2      \* nested hook frames a stack holds before it overflows

(* ----------------------------- constants ------------------------------ *)
MainThread == 1
NoThread == 0
PreRun == 0          \* writer mark of content that predates this run

Threads == 1..NThreads
Workers == Threads \ {MainThread}
Funcs == 0..(NFuncs - 1)
TidPool == 1..NThreads          \* native thread ids the system hands out

DefaultPath == "callcounter.raw"
EnvPath == "custom.raw"
NoEnv == "unset"
Paths == {DefaultPath, EnvPath}

\* what the files hold before the run: something that is no record
Garbage == << [fld |-> 0, val |-> <<"garbage">>, by |-> PreRun] >>

\* call sites the instrumentation passes as second argument
Callers == {0, 1}

\* functions of the translation unit that carry no_instrument_function
NoInstrumentAttr == {"cc_constructor"}

VARIABLES
  phase,          \* "pre" (before cc_constructor), "run", "exited"
  env,            \* value of CC_OUTFILE, or NoEnv
  outfile,        \* static const char *outfile
  fs,             \* content of each path: a sequence of tokens
  instrumentLib,  \* the library itself was built with -finstrument-functions
  pc,             \* per thread: position in its life / in ~ThreadCallMap
  life,           \* per thread: "Unborn", "Active", "Drained" (thread_call_map)
  tally,          \* per thread: thread_call_map.map, a function on its keys
  mutex,          \* file_mutex: owning thread or NoThread
  fh,             \* per thread: FILE *f of the destructor is open
  buf,            \* per thread: stdio buffer of that FILE
  pending,        \* per thread: keys the range-for has not visited yet
  depth,          \* per thread: nested frames of __cyg_profile_func_enter
  tid,            \* per thread: native thread id (0 before the thread starts)
  entered,        \* history: per thread and identity, hook invocations completed
  openFailed,     \* history: per thread, its append fopen returned NULL
  truncs,         \* history: "none", "ok", "failed" outcome of the "w" fopen
  hookUnderLock,  \* history: the last step was a hook body run while another
                  \* thread held the mutex
  exitRan,        \* history: the last step was an exit-hook invocation
  afterDtor       \* history: the entry hook has used the main thread's
                  \* thread_call_map after its destruction

vars == << phase, env, outfile, fs, instrumentLib, pc, life, tally,
           mutex, fh, buf, pending, depth, tid, entered, openFailed, truncs,
           hookUnderLock, exitRan, afterDtor >>

(* ----------------------------- formatting ----------------------------- *)
\* "%p": glibc prints the null pointer as (nil), others as 0x<hex>
FmtPtr(p) == IF p = 0 THEN <<"(nil)">> ELSE <<"0x", p>>

\* "%lu" and "%zu": unsigned decimal
FmtDec(n) == <<"dec", n>>

\* std::hash<std::thread::id>
Hash(id) == (id * 7 + 3) % 64

\* one line "%p %lu %zu\n" as three field tokens written by thread t
Rec(t, key, value, tid_num) ==
  << [fld |-> 1, val |-> FmtPtr(key), by |-> t],
     [fld |-> 2, val |-> FmtDec(value), by |-> t],
     [fld |-> 3, val |-> FmtDec(tid_num), by |-> t] >>

(* ------------------------------- helpers ------------------------------ *)
\* const char *env = getenv("CC_OUTFILE"); if (env) outfile = env;
SelectPath(e, dflt) == IF e # NoEnv THEN e ELSE dflt

Instrumented(fn) == instrumentLib /\ fn \notin NoInstrumentAttr

\* the hook stores 1 instead of incrementing
MapIncrAssign(m, f) ==
  [k \in (DOMAIN m) \cup {f} |-> IF k = f THEN 1 ELSE m[k]]

\* std::unordered_map::operator[] followed by ++
MapIncr(m, f) ==
  [k \in (DOMAIN m) \cup {f} |->
     IF k = f THEN (IF f \in DOMAIN m THEN m[f] ELSE 0) + 1 ELSE m[k]]

EmptyMap == [k \in {} |-> 0]

RECURSIVE SumOver(_, _)
SumOver(g, S) ==
  IF S = {} THEN 0
  ELSE LET x == CHOOSE y \in S : TRUE IN g[x] + SumOver(g, S \ {x})

\* hook invocations completed so far, by all threads
TotalCalls == SumOver([u \in Threads |-> SumOver(entered[u], Funcs)], Threads)

Live(t) == pc[t] \notin {"unstarted", "done", "killed"}

\* the native id a new thread gets: ids of ended threads are handed out
\* again, as pthread implementations do with the cached stack of a joined
\* thread; no two live threads share one, and the main thread keeps its id
\* to the end of the process
FreeTid ==
  LET free == TidPool \ {tid[u] : u \in {v \in Threads : Live(v)} \cup {MainThread}}
  IN CHOOSE i \in free : \A j \in free : i <= j

\* every thread still alive is gone when the process ends
KillAll == [t \in Threads |-> IF Live(t) THEN "killed" ELSE pc[t]]

(* -------------------------------- Init -------------------------------- *)
Init ==
  /\ phase = "pre"
  /\ env \in {NoEnv, EnvPath}
  /\ outfile = DefaultPath
  /\ fs = [p \in Paths |-> Garbage]
  /\ instrumentLib \in BOOLEAN
  /\ pc = [t \in Threads |-> IF t = MainThread THEN "running" ELSE "unstarted"]
  /\ life = [t \in Threads |-> "Unborn"]
  /\ tally = [t \in Threads |-> EmptyMap]
  /\ mutex = NoThread
  /\ fh = [t \in Threads |-> FALSE]
  /\ buf = [t \in Threads |-> <<>>]
  /\ pending = [t \in Threads |-> {}]
  /\ depth = [t \in Threads |-> 0]
  /\ tid = [t \in Threads |-> IF t = MainThread THEN 1 ELSE 0]
  /\ entered = [t \in Threads |-> [f \in Funcs |-> 0]]
  /\ openFailed = [t \in Threads |-> FALSE]
  /\ truncs = "none"
  /\ hookUnderLock = FALSE
  /\ exitRan = FALSE
  /\ afterDtor = FALSE

(* ------------------------------ actions ------------------------------- *)
\* the constructor opens the file with "a": nothing is truncated
cc_constructor_append(ok) ==
  /\ phase = "pre"
  /\ depth[MainThread] = 0
  /\ outfile' = SelectPath(env, outfile)
  /\ fs' = fs
  /\ truncs' = IF ok THEN "ok" ELSE "failed"
  /\ phase' = "run"
  /\ hookUnderLock' = FALSE
  /\ exitRan' = FALSE
  /\ UNCHANGED afterDtor
  /\ UNCHANGED << env, instrumentLib, pc, life, tally, mutex, fh, buf, pending,
                  depth, tid, entered, openFailed >>

\* cc_constructor: choose the path, fopen(outfile, "w"), fclose; ok is
\* whether that fopen succeeds
cc_constructor(ok) ==
  /\ phase = "pre"
  /\ depth[MainThread] = 0
  /\ outfile' = SelectPath(env, outfile)
  /\ IF ok
       THEN fs' = [fs EXCEPT ![outfile'] = <<>>] /\ truncs' = "ok"
       ELSE fs' = fs /\ truncs' = "failed"
  /\ phase' = "run"
  /\ hookUnderLock' = FALSE
  /\ exitRan' = FALSE
  /\ UNCHANGED afterDtor
  /\ UNCHANGED << env, instrumentLib, pc, life, tally, mutex, fh, buf, pending,
                  depth, tid, entered, openFailed >>

\* a running thread creates a worker thread; workers are numbered in the
\* order of their creation, and the modelled program runs them one after the
\* other, each alongside the main thread
Spawn(t) ==
  /\ phase = "run"
  /\ pc[t] = "unstarted"
  /\ \E u \in Threads : pc[u] = "running"
  /\ \A w \in Workers : ~Live(w)
  /\ \A w \in Workers : w < t => pc[w] # "unstarted"
  /\ tid' = [tid EXCEPT ![t] = FreeTid]
  /\ pc' = [pc EXCEPT ![t] = "running"]
  /\ hookUnderLock' = FALSE
  /\ exitRan' = FALSE
  /\ UNCHANGED afterDtor
  /\ UNCHANGED << phase, env, outfile, fs, instrumentLib, life, tally,
                  mutex, fh, buf, pending, depth, entered, openFailed,
                  truncs >>

\* the hook counts under the caller's identity
func_enter_by_caller(t, func, caller) ==
  /\ phase \in {"pre", "run"}
  /\ pc[t] = "running"
  /\ depth[t] = 0
  /\ TotalCalls < MaxCalls
  /\ IF Instrumented("__cyg_profile_func_enter")
       THEN /\ depth' = [depth EXCEPT ![t] = 1]
            /\ hookUnderLock' = FALSE
            /\ UNCHANGED << tally, life, entered >>
       ELSE /\ tally' = [tally EXCEPT ![t] = MapIncr(@, caller)]
            /\ entered' = [entered EXCEPT ![t][func] = @ + 1]
            /\ life' = [life EXCEPT ![t] = "Active"]
            /\ hookUnderLock' = (mutex \notin {NoThread, t})
            /\ UNCHANGED depth
  /\ exitRan' = FALSE
  /\ UNCHANGED afterDtor
  /\ UNCHANGED << phase, env, outfile, fs, instrumentLib, pc, mutex,
                  fh, buf, pending, tid, openFailed, truncs >>

\* the hook takes file_mutex around the map update
func_enter_locked(t, func, caller) ==
  /\ phase \in {"pre", "run"}
  /\ pc[t] = "running"
  /\ depth[t] = 0
  /\ TotalCalls < MaxCalls
  /\ mutex = NoThread
  /\ IF Instrumented("__cyg_profile_func_enter")
       THEN /\ depth' = [depth EXCEPT ![t] = 1]
            /\ hookUnderLock' = FALSE
            /\ UNCHANGED << tally, life, entered >>
       ELSE /\ tally' = [tally EXCEPT ![t] = MapIncr(@, func)]
            /\ entered' = [entered EXCEPT ![t][func] = @ + 1]
            /\ life' = [life EXCEPT ![t] = "Active"]
            /\ hookUnderLock' = FALSE
            /\ UNCHANGED depth
  /\ exitRan' = FALSE
  /\ UNCHANGED afterDtor
  /\ UNCHANGED << phase, env, outfile, fs, instrumentLib, pc, mutex,
                  fh, buf, pending, tid, openFailed, truncs >>

\* __cyg_profile_func_enter(func, caller) called from an instrumented function;
\* cc_constructor has no priority, so the static initializers of object files
\* linked ahead of callcounter.o run, and call the hook, in phase "pre"
func_enter(t, func, caller) ==
  /\ phase \in {"pre", "run"}
  /\ pc[t] = "running"
  /\ depth[t] = 0
  /\ TotalCalls < MaxCalls
  /\ IF Instrumented("__cyg_profile_func_enter")
       THEN \* the hook's own prologue calls the hook before its body runs
            /\ depth' = [depth EXCEPT ![t] = 1]
            /\ hookUnderLock' = FALSE
            /\ UNCHANGED << tally, life, entered >>
       ELSE /\ tally' = [tally EXCEPT ![t] = MapIncr(@, func)]
            /\ entered' = [entered EXCEPT ![t][func] = @ + 1]
            /\ life' = [life EXCEPT ![t] = "Active"]
            /\ hookUnderLock' = (mutex \notin {NoThread, t})
            /\ UNCHANGED depth
  /\ exitRan' = FALSE
  /\ UNCHANGED afterDtor
  /\ UNCHANGED << phase, env, outfile, fs, instrumentLib, pc, mutex,
                  fh, buf, pending, tid, openFailed, truncs >>

\* the instrumented hook enters itself again
func_enter_nested(t) ==
  /\ phase \in {"pre", "run"}
  /\ depth[t] \in 1..(StackLimit - 1)
  /\ depth' = [depth EXCEPT ![t] = @ + 1]
  /\ hookUnderLock' = FALSE
  /\ exitRan' = FALSE
  /\ UNCHANGED afterDtor
  /\ UNCHANGED << phase, env, outfile, fs, instrumentLib, pc, life,
                  tally, mutex, fh, buf, pending, tid, entered,
                  openFailed, truncs >>

\* the exit hook takes the callee's count back
func_exit_uncount(t, func, caller) ==
  /\ phase \in {"pre", "run"}
  /\ pc[t] = "running"
  /\ depth[t] = 0
  /\ tally' = [tally EXCEPT ![t] =
                 [k \in (DOMAIN @) \ {func} |-> @[k]]]
  /\ depth' = IF Instrumented("__cyg_profile_func_exit")
                THEN [depth EXCEPT ![t] = 1] ELSE depth
  /\ hookUnderLock' = FALSE
  /\ exitRan' = TRUE
  /\ UNCHANGED afterDtor
  /\ UNCHANGED << phase, env, outfile, fs, instrumentLib, pc, life, mutex,
                  fh, buf, pending, tid, entered, openFailed, truncs >>

\* __cyg_profile_func_exit(func, caller): empty body.  Built instrumented,
\* its prologue calls __cyg_profile_func_enter before the body
func_exit(t, func, caller) ==
  /\ phase \in {"pre", "run"}
  /\ pc[t] = "running"
  /\ depth[t] = 0
  /\ depth' = IF Instrumented("__cyg_profile_func_exit")
                THEN [depth EXCEPT ![t] = 1] ELSE depth
  /\ hookUnderLock' = FALSE
  /\ exitRan' = TRUE
  /\ UNCHANGED afterDtor
  /\ UNCHANGED << phase, env, outfile, fs, instrumentLib, pc, life, tally,
                  mutex, fh, buf, pending, tid, entered, openFailed, truncs >>

\* the destructor without its empty() test
BeginTeardownNoTest(t) ==
  pc' = [pc EXCEPT ![t] = "lock"] /\ life' = life

\* thread-local destruction starts: ~ThreadCallMap up to the empty() test
BeginTeardown(t) ==
  IF life[t] = "Active" /\ DOMAIN tally[t] # {}
    THEN pc' = [pc EXCEPT ![t] = "lock"] /\ life' = life
    ELSE /\ pc' = [pc EXCEPT ![t] = "done"]
         /\ life' = [life EXCEPT ![t] = IF @ = "Active" THEN "Drained" ELSE @]

\* a worker returns from its start routine
ThreadExit(t) ==
  /\ phase = "run"
  /\ t \in Workers
  /\ pc[t] = "running"
  /\ depth[t] = 0
  /\ BeginTeardown(t)
  /\ hookUnderLock' = FALSE
  /\ exitRan' = FALSE
  /\ UNCHANGED afterDtor
  /\ UNCHANGED << phase, env, outfile, fs, instrumentLib, tally, mutex,
                  fh, buf, pending, depth, tid, entered, openFailed,
                  truncs >>

\* main returns (exit() is called): the main thread's thread_local objects
\* are destroyed first, the process ends after that
MainReturn ==
  /\ phase = "run"
  /\ pc[MainThread] = "running"
  /\ depth[MainThread] = 0
  /\ BeginTeardown(MainThread)
  /\ hookUnderLock' = FALSE
  /\ exitRan' = FALSE
  /\ UNCHANGED afterDtor
  /\ UNCHANGED << phase, env, outfile, fs, instrumentLib, tally, mutex,
                  fh, buf, pending, depth, tid, entered, openFailed, truncs >>

\* the destructor goes on without waiting for file_mutex
LockNoWait(t) ==
  /\ phase = "run"
  /\ pc[t] = "lock"
  /\ mutex' = t
  /\ pc' = [pc EXCEPT ![t] = "open"]
  /\ hookUnderLock' = FALSE
  /\ exitRan' = FALSE
  /\ UNCHANGED afterDtor
  /\ UNCHANGED << phase, env, outfile, fs, instrumentLib, life, tally,
                  fh, buf, pending, depth, tid, entered, openFailed,
                  truncs >>

\* std::lock_guard<std::mutex> lock(file_mutex)
Lock(t) ==
  /\ phase = "run"
  /\ pc[t] = "lock"
  /\ mutex = NoThread
  /\ mutex' = t
  /\ pc' = [pc EXCEPT ![t] = "open"]
  /\ hookUnderLock' = FALSE
  /\ exitRan' = FALSE
  /\ UNCHANGED afterDtor
  /\ UNCHANGED << phase, env, outfile, fs, instrumentLib, life, tally,
                  fh, buf, pending, depth, tid, entered, openFailed,
                  truncs >>

\* the lock is dropped once the file is open, before the records are written
OpenUnlocked(t, ok) ==
  /\ phase = "run"
  /\ pc[t] = "open"
  /\ IF ok
       THEN /\ fh' = [fh EXCEPT ![t] = TRUE]
            /\ pending' = [pending EXCEPT ![t] = DOMAIN tally[t]]
            /\ pc' = [pc EXCEPT ![t] = "write"]
            /\ UNCHANGED openFailed
       ELSE /\ openFailed' = [openFailed EXCEPT ![t] = TRUE]
            /\ pc' = [pc EXCEPT ![t] = "unlock"]
            /\ UNCHANGED << fh, pending >>
  /\ mutex' = NoThread
  /\ hookUnderLock' = FALSE
  /\ exitRan' = FALSE
  /\ UNCHANGED afterDtor
  /\ UNCHANGED << phase, env, outfile, fs, instrumentLib, life, tally,
                  buf, depth, tid, entered, truncs >>

\* the failed open returns from the destructor with the mutex still locked
OpenKeepsLock(t, ok) ==
  /\ phase = "run"
  /\ pc[t] = "open"
  /\ IF ok
       THEN /\ fh' = [fh EXCEPT ![t] = TRUE]
            /\ pending' = [pending EXCEPT ![t] = DOMAIN tally[t]]
            /\ pc' = [pc EXCEPT ![t] = "write"]
            /\ UNCHANGED << openFailed, life >>
       ELSE /\ openFailed' = [openFailed EXCEPT ![t] = TRUE]
            /\ pc' = [pc EXCEPT ![t] = "done"]
            /\ life' = [life EXCEPT ![t] = "Drained"]
            /\ UNCHANGED << fh, pending >>
  /\ hookUnderLock' = FALSE
  /\ exitRan' = FALSE
  /\ UNCHANGED afterDtor
  /\ UNCHANGED << phase, env, outfile, fs, instrumentLib, tally, mutex, buf,
                  depth, tid, entered, truncs >>

\* FILE *f = fopen(outfile, "a"); if (f) ... ; ok is whether fopen succeeds
Open(t, ok) ==
  /\ phase = "run"
  /\ pc[t] = "open"
  /\ IF ok
       THEN /\ fh' = [fh EXCEPT ![t] = TRUE]
            /\ pending' = [pending EXCEPT ![t] = DOMAIN tally[t]]
            /\ pc' = [pc EXCEPT ![t] = "write"]
            /\ UNCHANGED openFailed
       ELSE /\ openFailed' = [openFailed EXCEPT ![t] = TRUE]
            /\ pc' = [pc EXCEPT ![t] = "unlock"]
            /\ UNCHANGED << fh, pending >>
  /\ hookUnderLock' = FALSE
  /\ exitRan' = FALSE
  /\ UNCHANGED afterDtor
  /\ UNCHANGED << phase, env, outfile, fs, instrumentLib, life, tally,
                  mutex, buf, depth, tid, entered, truncs >>

\* one iteration of the range-for: fprintf(f, "%p %lu %zu\n", ...); the
\* record goes to the stdio buffer, and every full BufSize of the buffer is
\* written to the file, so a write can end inside a record
Fprintf(t) ==
  /\ phase = "run"
  /\ pc[t] = "write"
  /\ pending[t] # {}
  /\ \E key \in pending[t] :
       LET b == buf[t] \o Rec(t, key, tally[t][key], Hash(tid[t]))
           n == (Len(b) \div BufSize) * BufSize
       IN /\ fs' = [fs EXCEPT ![outfile] = @ \o SubSeq(b, 1, n)]
          /\ buf' = [buf EXCEPT ![t] = SubSeq(b, n + 1, Len(b))]
          /\ pending' = [pending EXCEPT ![t] = @ \ {key}]
  /\ hookUnderLock' = FALSE
  /\ exitRan' = FALSE
  /\ UNCHANGED afterDtor
  /\ UNCHANGED << phase, env, outfile, instrumentLib, pc, life, tally,
                  mutex, fh, depth, tid, entered, openFailed, truncs >>

\* the buffer is written out, but the handle stays open
FcloseLeak(t) ==
  /\ phase = "run"
  /\ pc[t] = "write"
  /\ pending[t] = {}
  /\ fs' = [fs EXCEPT ![outfile] = @ \o buf[t]]
  /\ buf' = [buf EXCEPT ![t] = <<>>]
  /\ pc' = [pc EXCEPT ![t] = "unlock"]
  /\ hookUnderLock' = FALSE
  /\ exitRan' = FALSE
  /\ UNCHANGED afterDtor
  /\ UNCHANGED << phase, env, outfile, instrumentLib, life, tally,
                  mutex, fh, pending, depth, tid, entered, openFailed,
                  truncs >>

\* fclose(f): the rest of the buffer is written, the handle is closed
Fclose(t) ==
  /\ phase = "run"
  /\ pc[t] = "write"
  /\ pending[t] = {}
  /\ fs' = [fs EXCEPT ![outfile] = @ \o buf[t]]
  /\ buf' = [buf EXCEPT ![t] = <<>>]
  /\ fh' = [fh EXCEPT ![t] = FALSE]
  /\ pc' = [pc EXCEPT ![t] = "unlock"]
  /\ hookUnderLock' = FALSE
  /\ exitRan' = FALSE
  /\ UNCHANGED afterDtor
  /\ UNCHANGED << phase, env, outfile, instrumentLib, life, tally,
                  mutex, pending, depth, tid, entered, openFailed,
                  truncs >>

\* the destructor runs once more after it has finished
UnlockRerun(t) ==
  /\ phase = "run"
  /\ pc[t] = "unlock"
  /\ mutex' = NoThread
  /\ pc' = [pc EXCEPT ![t] = "lock"]
  /\ hookUnderLock' = FALSE
  /\ exitRan' = FALSE
  /\ UNCHANGED afterDtor
  /\ UNCHANGED << phase, env, outfile, fs, instrumentLib, life, tally, fh,
                  buf, pending, depth, tid, entered, openFailed, truncs >>

\* end of the destructor: lock_guard releases file_mutex, the map is destroyed
Unlock(t) ==
  /\ phase = "run"
  /\ pc[t] = "unlock"
  /\ mutex' = NoThread
  /\ pc' = [pc EXCEPT ![t] = "done"]
  /\ life' = [life EXCEPT ![t] = "Drained"]
  /\ hookUnderLock' = FALSE
  /\ exitRan' = FALSE
  /\ UNCHANGED afterDtor
  /\ UNCHANGED << phase, env, outfile, fs, instrumentLib, tally, fh,
                  buf, pending, depth, tid, entered, openFailed, truncs >>

\* the process is gone: its threads, its memory and its handles with it;
\* the files and what has happened stay
ProcessGone ==
  /\ phase' = "exited"
  /\ pc' = KillAll
  /\ tally' = [t \in Threads |-> EmptyMap]
  /\ mutex' = NoThread
  /\ fh' = [t \in Threads |-> FALSE]
  /\ buf' = [t \in Threads |-> <<>>]
  /\ pending' = [t \in Threads |-> {}]
  /\ depth' = [t \in Threads |-> 0]
  /\ hookUnderLock' = FALSE
  /\ exitRan' = FALSE
  /\ UNCHANGED afterDtor
  /\ UNCHANGED << env, outfile, fs, instrumentLib, life, tid, entered,
                  openFailed, truncs >>

\* __cyg_profile_func_enter(func, caller) called by the main thread after its
\* thread_local objects have been destroyed: exit() destroys them before the
\* atexit handlers and the destructors of static objects run.  If
\* thread_call_map was never constructed, this first use constructs it, and
\* no destructor will run for it.  If it was destroyed, map[func]++ uses a
\* destroyed object (undefined): the increment goes to dead memory, or the
\* process dies
func_enter_after_dtor(func, caller) ==
  /\ phase = "run"
  /\ pc[MainThread] = "done"
  /\ depth[MainThread] = 0
  /\ \/ /\ Instrumented("__cyg_profile_func_enter")
        /\ depth' = [depth EXCEPT ![MainThread] = 1]
        /\ hookUnderLock' = FALSE /\ exitRan' = FALSE
        /\ UNCHANGED << phase, env, outfile, fs, instrumentLib, pc, life,
                        tally, mutex, fh, buf, pending, tid, entered,
                        openFailed, truncs, afterDtor >>
     \/ /\ ~Instrumented("__cyg_profile_func_enter")
        /\ life[MainThread] # "Drained"
        /\ TotalCalls < MaxCalls
        /\ tally' = [tally EXCEPT ![MainThread] = MapIncr(@, func)]
        /\ entered' = [entered EXCEPT ![MainThread][func] = @ + 1]
        /\ life' = [life EXCEPT ![MainThread] = "Active"]
        /\ hookUnderLock' = FALSE /\ exitRan' = FALSE
        /\ UNCHANGED << phase, env, outfile, fs, instrumentLib, pc, mutex,
                        fh, buf, pending, depth, tid, openFailed, truncs,
                        afterDtor >>
     \/ /\ ~Instrumented("__cyg_profile_func_enter")
        /\ life[MainThread] = "Drained"
        /\ afterDtor' = TRUE
        /\ hookUnderLock' = FALSE /\ exitRan' = FALSE
        /\ UNCHANGED << phase, env, outfile, fs, instrumentLib, pc, life,
                        tally, mutex, fh, buf, pending, depth, tid, entered,
                        openFailed, truncs >>
     \/ /\ ~Instrumented("__cyg_profile_func_enter")
        /\ life[MainThread] = "Drained"
        /\ ProcessGone

\* exit() finishes after the main thread's thread_local destructors:
\* the process ends and takes every other thread with it
ProcessEnd ==
  /\ phase = "run"
  /\ pc[MainThread] = "done"
  /\ depth[MainThread] = 0
  /\ ProcessGone

\* abort(), _exit(), a fatal signal: no destructor runs
Abort ==
  /\ phase = "run"
  /\ \A t \in Threads : depth[t] < StackLimit
  /\ ProcessGone

\* the self-entering hook runs out of stack: the process dies
StackOverflow(t) ==
  /\ phase \in {"pre", "run"}
  /\ depth[t] = StackLimit
  /\ ProcessGone

Next ==
  \/ \E ok \in BOOLEAN : cc_constructor(ok)
  \/ \E t \in Threads : Spawn(t)
  \/ \E t \in Threads, func \in Funcs, caller \in Callers : func_enter(t, func, caller)
  \/ \E func \in Funcs, caller \in Callers : func_enter_after_dtor(func, caller)
  \/ \E t \in Threads : func_enter_nested(t)
  \/ \E t \in Threads, func \in Funcs, caller \in Callers : func_exit(t, func, caller)
  \/ \E t \in Threads : ThreadExit(t)
  \/ MainReturn
  \/ \E t \in Threads : Lock(t)
  \/ \E t \in Threads, ok \in BOOLEAN : Open(t, ok)
  \/ \E t \in Threads : Fprintf(t)
  \/ \E t \in Threads : Fclose(t)
  \/ \E t \in Threads : Unlock(t)
  \/ ProcessEnd
  \/ Abort
  \/ \E t \in Threads : StackOverflow(t)

Spec == Init /\ [][Next]_vars

\* the steps of a run that nothing ends from outside: no abort(), _exit() or
\* fatal signal
NextOrderly ==
  \/ \E ok \in BOOLEAN : cc_constructor(ok)
  \/ \E t \in Threads : Spawn(t)
  \/ \E t \in Threads, func \in Funcs, caller \in Callers : func_enter(t, func, caller)
  \/ \E func \in Funcs, caller \in Callers : func_enter_after_dtor(func, caller)
  \/ \E t \in Threads : func_enter_nested(t)
  \/ \E t \in Threads, func \in Funcs, caller \in Callers : func_exit(t, func, caller)
  \/ \E t \in Threads : ThreadExit(t)
  \/ MainReturn
  \/ \E t \in Threads : Lock(t)
  \/ \E t \in Threads, ok \in BOOLEAN : Open(t, ok)
  \/ \E t \in Threads : Fprintf(t)
  \/ \E t \in Threads : Fclose(t)
  \/ \E t \in Threads : Unlock(t)
  \/ ProcessEnd
  \/ \E t \in Threads : StackOverflow(t)

\* a thread inside ~ThreadCallMap keeps being scheduled: whenever its next
\* step stays possible, it takes it.  std::mutex promises no order among
\* waiters, so the wait for the lock gets weak fairness only
Fairness ==
  \A t \in Threads :
    /\ WF_vars(Lock(t))
    /\ WF_vars(\E ok \in BOOLEAN : Open(t, ok))
    /\ WF_vars(Fprintf(t))
    /\ WF_vars(Fclose(t))
    /\ WF_vars(Unlock(t))

SpecFair == Init /\ [][NextOrderly]_vars /\ Fairness

(* ===================== properties of the program ====================== *)
File == fs[outfile]

IsPrefix(s, t) == Len(s) <= Len(t) /\ SubSeq(t, 1, Len(s)) = s

\* what threads of this run have put into the output file, in file order
RunTokens == SelectSeq(File, LAMBDA x : x.by # PreRun)

\* the i-th group of three tokens of the run's content
Line(i) == SubSeq(RunTokens, 3 * i - 2, 3 * i)

CompleteLines == { Line(i) : i \in 1..(Len(RunTokens) \div 3) }

Calls(t) == SumOver(entered[t], Funcs)

\* the records thread t owes the file: one per identity it entered
ExpectedLine(t, f) ==
  << [fld |-> 1, val |-> FmtPtr(f), by |-> t],
     [fld |-> 2, val |-> FmtDec(entered[t][f]), by |-> t],
     [fld |-> 3, val |-> FmtDec(Hash(tid[t])), by |-> t] >>

Expected(t) == { ExpectedLine(t, f) : f \in {g \in Funcs : entered[t][g] > 0} }

LinesBy(t) == { l \in CompleteLines : l[1].by = t }

NoTokenBy(t) ==
  \A p \in Paths : \A i \in 1..Len(fs[p]) : fs[p][i].by # t

InTeardown(t) == pc[t] \in {"lock", "open", "write", "unlock"}

(* ---- C1 ---- *)
\* C1: frequency invariant.  While a thread's accumulator exists, its keys are
\* exactly the identities the thread's completed hook invocations named (the
\* null identity 0 included) and each count is the number of those
\* invocations; an identity entered twice is one key with count 2.
C1_FrequencyInvariant ==
  \A t \in Threads :
    (phase = "run" /\ life[t] # "Drained") =>
      /\ DOMAIN tally[t] = {f \in Funcs : entered[t][f] > 0}
      /\ \A f \in DOMAIN tally[t] : tally[t][f] = entered[t][f]

C1_Witness ==
  \E t \in Threads :
    /\ phase = "run" /\ pc[t] = "running"
    /\ entered[t][0] = 2
    /\ DOMAIN tally[t] = {0} /\ tally[t][0] = 2

(* ---- C2 ---- *)
C2_NormalRun ==
  /\ phase = "exited"
  /\ truncs = "ok"
  /\ \A t \in Threads : pc[t] # "killed" /\ ~openFailed[t]

\* C2 as claimed: end-to-end output.  After the process has exited, when the
\* truncation and every append open succeeded and every thread ended
\* normally, the run's content of the output file is exactly one line
\* (f, n, tag(t)) per thread t and identity f that t entered n >= 1 times,
\* and nothing else: no invocation a thread made is left out of its line,
\* and lines of different threads are never merged.
C2_EndToEnd ==
  C2_NormalRun =>
    /\ Len(File) = Len(RunTokens)
    /\ Len(RunTokens) % 3 = 0
    /\ CompleteLines = UNION { Expected(t) : t \in Threads }
    /\ Len(RunTokens) = 3 * Cardinality(UNION { Expected(t) : t \in Threads })
    /\ ~afterDtor

C4_EmptyShortCircuit ==
  \A t \in Threads :
    Calls(t) = 0 =>
      /\ ~InTeardown(t)
      /\ mutex # t
      /\ ~fh[t] /\ ~openFailed[t] /\ buf[t] = <<>>
      /\ NoTokenBy(t)

\* every step that ends a thread with no invocation leaves the files, the
\* mutex and the handles as they were
C4_Frame ==
  [][\A t \in Threads :
       (pc[t] = "running" /\ Calls(t) = 0 /\ pc'[t] = "done") =>
          (fs' = fs /\ mutex' = mutex /\ fh' = fh)]_vars

\* C4: empty short-circuit.  A thread that terminates having made no hook
\* invocation writes no record, never opens the output target and never
\* waits for or acquires the output mutex; its termination leaves the files
\* unchanged.
C4_EmptyThreadSilent == []C4_EmptyShortCircuit /\ C4_Frame

C4_Witness ==
  \E t, u \in Threads :
    /\ phase = "run"
    /\ pc[t] = "done" /\ Calls(t) = 0
    /\ pc[u] = "done" /\ Calls(u) > 0 /\ LinesBy(u) # {}

(* ---- C5 ---- *)
\* the output file holds nothing older than this run
C5_NothingOld == \A i \in 1..Len(File) : File[i].by # PreRun

\* a step that changes a file either appends to it or is the truncation done
\* by process initialization
C5_AppendStep ==
  \A p \in Paths :
    \/ IsPrefix(fs[p], fs'[p])
    \/ (phase = "pre" /\ phase' = "run" /\ fs'[p] = <<>>)

\* initialization happens once: the program never returns to the phase
\* before it
C5_InitOnce == (phase # "pre") => (phase' # "pre")

\* a step that makes the output file longer adds whole records
C5_WholeRecords ==
  (phase # "pre" /\ fs'[outfile] # fs[outfile]) =>
     (Len(fs'[outfile]) - Len(fs[outfile])) % 3 = 0

C6_SinkUnavailable ==
  \A t \in Threads :
    openFailed[t] =>
      /\ Calls(t) > 0
      /\ NoTokenBy(t)
      /\ ~fh[t] /\ buf[t] = <<>>
      /\ pc[t] \in {"unlock", "done", "killed"}
      /\ pc[t] = "unlock" =>
           /\ mutex = t /\ ENABLED Unlock(t)
           /\ \A f \in Funcs : entered[t][f] > 0 =>
                 (f \in DOMAIN tally[t] /\ tally[t][f] = entered[t][f])
      /\ pc[t] = "done" => mutex # t
      /\ \A u \in Threads \ {t} :
           (life[u] = "Drained" /\ ~openFailed[u]) => LinesBy(u) = Expected(u)

\* the step in which the open fails changes no file
C6_FailedOpenFrame ==
  [][\A t \in Threads : (~openFailed[t] /\ openFailed'[t]) => fs' = fs]_vars

\* C6: sink unavailable at teardown.  A thread whose append open failed had
\* accumulated its invocations in memory, has written nothing to any file,
\* holds no handle, goes straight on to release the mutex and end, and leaves
\* the flushes of other threads complete.
C6_FlushDropped == []C6_SinkUnavailable /\ C6_FailedOpenFrame

\* one thread's open failed and it has ended; another thread flushes after it
C6_Witness ==
  \E t, u \in Threads :
    /\ t # u
    /\ openFailed[t] /\ pc[t] = "done" /\ mutex = NoThread
    /\ pc[u] = "done" /\ ~openFailed[u] /\ Calls(u) > 0
    /\ LinesBy(u) = Expected(u) /\ LinesBy(u) # {}

(* ---- C7 ---- *)
\* C7 as claimed: once the process has exited, every thread that made at
\* least one hook invocation (and whose append open did not fail) has its
\* counts in the output target, however the thread or the process ended.
C7_FlushOnEveryExitPath ==
  phase = "exited" =>
    \A t \in Threads :
      (Calls(t) > 0 /\ ~openFailed[t]) => LinesBy(t) = Expected(t)

(* ---- C8 ---- *)
\* C8 as claimed: an invocation of the entry hook never causes a nested
\* invocation of the entry hook in the same thread.
C8_NoSelfRecursion == \A t \in Threads : depth[t] = 0

(* ---- C9 ---- *)
\* a thread that runs instrumented code can enter the hook whatever the state
\* of the mutex
C9_NeverBlocked ==
  \A t \in Threads :
    (phase = "run" /\ pc[t] = "running" /\ depth[t] = 0 /\ TotalCalls < MaxCalls) =>
       \A f \in Funcs : ENABLED func_enter(t, f, 0)

\* a step in which a hook invocation completes touches neither the mutex nor
\* any file, handle or buffer
C9_HookFrame ==
  [][(entered' # entered) =>
        (mutex' = mutex /\ fs' = fs /\ fh' = fh /\ buf' = buf /\ pc' = pc)]_vars

\* C9: the entry hook is lock-free and does no I/O: it never acquires or waits
\* for the output mutex, never opens or writes the output target, and runs
\* while another thread holds the mutex.
C9_HookLockFree == []C9_NeverBlocked /\ C9_HookFrame

\* a hook invocation has just completed while another thread was inside its
\* flush with the file open
C9_Witness ==
  /\ hookUnderLock
  /\ \E u \in Threads : mutex = u /\ fh[u] /\ pc[u] = "write"

(* ---- C10 ---- *)
\* C10 as claimed: when the truncating open of initialization failed, every
\* later append open fails too, so no record of this run is ever appended to
\* an output target that was not truncated.
C10_NoMixedFile ==
  truncs = "failed" => (Len(RunTokens) = 0 /\ \A t \in Threads : ~fh[t])

(* ---- C11 ---- *)
\* C11 as claimed: initialization precedes all use.  As long as cc_constructor
\* has not chosen the path and truncated the file, no thread has invoked the
\* entry hook, and no thread has flushed or is flushing.
C11_InitPrecedesUse ==
  phase = "pre" =>
    \A t \in Threads :
      /\ Calls(t) = 0 /\ depth[t] = 0
      /\ ~InTeardown(t) /\ ~fh[t] /\ NoTokenBy(t)

(* ---- C12 ---- *)
\* C12: the exit hook is a no-op.  A step that is an exit-hook invocation, by
\* any thread with any arguments and in any state, leaves every thread's
\* tally, the output mutex and the output target (its path, its content, the
\* handles and buffers on it) unchanged.
C12_ExitHookNoOp ==
  [][exitRan' =>
       /\ tally' = tally /\ entered' = entered /\ life' = life
       /\ mutex' = mutex
       /\ outfile' = outfile /\ fs' = fs /\ fh' = fh /\ buf' = buf]_vars

\* an exit hook has just run in a thread that has counts, while another
\* thread was writing its records under the mutex
C12_Witness ==
  /\ exitRan
  /\ \E t, u \in Threads :
       /\ t # u
       /\ pc[t] = "running" /\ DOMAIN tally[t] # {}
       /\ mutex = u /\ fh[u] /\ pc[u] = "write"

(* ---- C13 ---- *)
\* C13 as claimed: single writer.  At most one actor has the output target
\* open for writing, and both kinds of writing open are made under the
\* process-wide mutex: a thread with an append handle holds the mutex, and
\* the step of initialization that opens the target for truncation is taken
\* with the mutex held.
C13_SingleWriterUnderMutex ==
  /\ [](/\ Cardinality({t \in Threads : fh[t]}) <= 1
        /\ \A t \in Threads : fh[t] => mutex = t)
  /\ [][(truncs = "none" /\ truncs' = "ok") =>
           (mutex # NoThread /\ mutex' # NoThread)]_vars

(* ---- C14 ---- *)
\* the positions of path p that hold thread t's record for identity f
RecordsOf(p, t, f) ==
  { i \in 1..Len(fs[p]) :
      fs[p][i].by = t /\ fs[p][i].fld = 1 /\ fs[p][i].val = FmtPtr(f) }

\* no identity of a thread's accumulator is written twice
C14_AtMostOnce ==
  \A p \in Paths, t \in Threads, f \in Funcs :
    Cardinality(RecordsOf(p, t, f)) <= 1

\* a thread flushes only once it has left its code for good, and what is in
\* the file under its name are its own counts and its own tag
C14_OwnTermination ==
  \A t \in Threads :
    /\ (mutex = t \/ fh[t] \/ openFailed[t] \/ ~NoTokenBy(t)) =>
          pc[t] \notin {"unstarted", "running"}
    /\ \A l \in LinesBy(t) :
         /\ \E f \in Funcs : entered[t][f] > 0 /\ l[1].val = FmtPtr(f)
         /\ l[3].val = FmtDec(Hash(tid[t]))

\* every step that writes to a file is taken by the thread that holds the
\* mutex, from inside its own destructor, and writes under its name only
C14_OwnerWrites ==
  [][(phase = "run" /\ fs' # fs) =>
       \E t \in Threads :
         /\ mutex = t /\ pc[t] = "write" /\ fh[t]
         /\ \A u \in Threads \ {t} :
              /\ pc'[u] = pc[u]
              /\ \A p \in Paths :
                   SelectSeq(fs'[p], LAMBDA x : x.by = u) =
                   SelectSeq(fs[p], LAMBDA x : x.by = u)]_vars

\* C14: exactly-once, owner-only flush.  Each thread's accumulator is flushed
\* at most once in a run, the flush starts only with that thread's own
\* termination, and the owning thread itself executes it.
C14_OwnerOnlyFlushOnce ==
  [](C14_AtMostOnce /\ C14_OwnTermination) /\ C14_OwnerWrites

\* two threads have each flushed their own accumulator and ended
C14_Witness ==
  \E t, u \in Threads :
    /\ t # u
    /\ pc[t] = "done" /\ pc[u] = "done"
    /\ LinesBy(t) # {} /\ LinesBy(u) # {}
    /\ LinesBy(t) = Expected(t) /\ LinesBy(u) = Expected(u)

(* ---- C15 ---- *)
\* a thread's lifecycle moves only Unborn -> Active -> Drained
C15_Lifecycle ==
  [][\A t \in Threads :
       life'[t] # life[t] =>
         << life[t], life'[t] >> \in
            { << "Unborn", "Active" >>, << "Active", "Drained" >> }]_vars

\* every invocation a thread has counted is in what its teardown flushed
C15_NothingMissing ==
  \A t \in Threads :
    (pc[t] = "done" /\ ~openFailed[t]) => LinesBy(t) = Expected(t)

\* C15 as claimed: Drained is terminal.  A thread's lifecycle is Unborn ->
\* Active -> Drained with no other transition; once its accumulator has been
\* through teardown no entry-hook invocation of the thread uses or re-creates
\* an accumulator; and no invocation the thread counted is missing from what
\* was flushed (every increment happens before the drain).
C15_DrainedTerminal ==
  /\ [](~afterDtor /\ C15_NothingMissing)
  /\ C15_Lifecycle

(* ---- C16 ---- *)
\* a step in which thread t's invocation for identity f is counted adds one
\* to t's tally at f and changes nothing else
C16_HookFrame ==
  [][\A t \in Threads, f \in Funcs :
       (entered'[t][f] # entered[t][f]) =>
         /\ DOMAIN tally'[t] = (DOMAIN tally[t]) \cup {f}
         /\ tally'[t][f] = (IF f \in DOMAIN tally[t] THEN tally[t][f] ELSE 0) + 1
         /\ \A k \in (DOMAIN tally[t]) \ {f} : tally'[t][k] = tally[t][k]
         /\ \A u \in Threads \ {t} : tally'[u] = tally[u]
         /\ mutex' = mutex
         /\ outfile' = outfile /\ fs' = fs /\ fh' = fh /\ buf' = buf]_vars

\* the step in which an invocation of t for f is counted is the hook's step
\* for t and f with every caller argument alike
C16_CallerUnused ==
  [][\A t \in Threads, f \in Funcs :
       (entered'[t][f] # entered[t][f]) =>
         \A c \in Callers :
           /\ pc[t] = "running" => func_enter(t, f, c)
           /\ pc[t] = "done" => func_enter_after_dtor(f, c)]_vars

\* C16: frame of the entry hook.  An entry-hook invocation by thread t with
\* callee f changes only t's tally at key f, by exactly +1: every other key of
\* t's tally, every other thread's tally, the output mutex and the output
\* target are unchanged, and the result does not depend on the caller.
C16_EntryHookFrame == C16_HookFrame /\ C16_CallerUnused

\* a thread has counted invocations for two identities, one after the other
C16_Witness ==
  \E t \in Threads :
    /\ pc[t] = "running"
    /\ DOMAIN tally[t] = {0, 1}
    /\ tally[t][0] = 1 /\ tally[t][1] = 1

(* ---- C17 ---- *)
\* C17 as claimed: teardown always completes.  Under fair scheduling every
\* thread that has begun its teardown with a non-empty tally eventually has
\* acquired the mutex, finished its flush and released the mutex: it reaches
\* Drained; and the mutex is only ever held by a thread that is on its way to
\* releasing it.
C17_TeardownCompletes ==
  /\ \A t \in Threads : InTeardown(t) ~> (life[t] = "Drained")
  /\ [](\A t \in Threads : mutex = t => pc[t] \in {"open", "write", "unlock"})

(* ---- C18 ---- *)
\* C18 as claimed: thread tags distinguish threads within one run.  Any two
\* distinct threads that have both flushed records emit different tags, also
\* when one has ended before the other was created, so no two lines with the
\* same (identity, tag) pair come from different threads.
C18_TagsDistinguishThreads ==
  \A t, u \in Threads :
    t # u =>
      \A l \in LinesBy(t), m \in LinesBy(u) : l[3].val # m[3].val

(* ---- C19 ---- *)
\* what the threads of this run have put into path p, in file order
TokensOfRun(p) == SelectSeq(fs[p], LAMBDA x : x.by # PreRun)

\* in every file, what one thread has written is one unbroken stretch
C19_OneStretch ==
  \A p \in Paths :
    LET r == TokensOfRun(p)
    IN \A i, k \in 1..Len(r) :
         (i < k /\ r[i].by = r[k].by) =>
            \A j \in i..k : r[j].by = r[i].by

\* all lines of one thread carry one tag, the thread's own
C19_OneTag ==
  \A t \in Threads :
    \A l \in LinesBy(t) : l[3].val = FmtDec(Hash(tid[t]))

C20_HandleUnderLock ==
  /\ \A t \in Threads : fh[t] => (mutex = t /\ pc[t] = "write")
  /\ \A t \in Threads : mutex = t => pc[t] \in {"open", "write", "unlock"}
  /\ (\A t \in Threads : ~InTeardown(t)) =>
        (mutex = NoThread /\ \A t \in Threads : ~fh[t] /\ buf[t] = <<>>)

\* while the process lives, the step that releases the mutex is taken with
\* the releasing thread's handle already closed, and the step that closes a
\* handle keeps the mutex
C20_CloseBeforeRelease ==
  [][phase' = "run" =>
       \A t \in Threads :
         /\ (mutex = t /\ mutex' # t) => (~fh[t] /\ ~fh'[t])
         /\ (fh[t] /\ ~fh'[t]) => (mutex = t /\ mutex' = t)]_vars

\* C20: no leaked lock or handle.  An open append handle on the output target
\* implies that the thread that opened it holds the output mutex; the handle
\* is closed before the mutex is released; and whenever no thread is inside
\* teardown the mutex is free and no handle is open, after a flush that
\* succeeded and after one whose open failed.
C20_NoLeak == []C20_HandleUnderLock /\ C20_CloseBeforeRelease

\* the process is running with no thread inside teardown, after one thread's
\* open failed and another thread's flush went through
C20_Witness ==
  /\ phase = "run"
  /\ \A t \in Threads : ~InTeardown(t)
  /\ mutex = NoThread
  /\ \E t, u \in Threads :
       /\ openFailed[t] /\ life[t] = "Drained"
       /\ ~openFailed[u] /\ life[u] = "Drained" /\ LinesBy(u) # {}

====
